---- MODULE Spec2Model ----
(***************************************************************************)
(* A model of myspace: the command line program that creates a development *)
(* container with the Dev Container CLI, persists the web UI port inside   *)
(* the container and serves the editor, optionally behind a TCP port       *)
(* proxy.                                                                  *)
(*                                                                         *)
(* JavaScript runs every handler to completion, so one action of the model *)
(* is one continuation of the program: the code from one await (or one     *)
(* socket event) up to the next await.  The Dev Container CLI, the shell   *)
(* commands run in the container and the TCP peers are the environment:    *)
(* how a child process ends and what the peers send is chosen with \E.     *)
(***************************************************************************)
EXTENDS Integers, Sequences, FiniteSets, TLC

(***************************************************************************)
(* Bounds of the model.                                                    *)
(***************************************************************************)
\* Math.random() returns k / RandDen for k in 0 .. RandDen - 1.
RandDen == 2
\* Number of times the program is started against the container.
MaxRuns == 3
\* Number of connections the forwarding listener accepts in one run.
MaxPairs == 2
\* Number of bytes the peers of the forwarding proxy send in one run.
MaxBytes == 2
\* Number of extensions the dev container configuration declares, at most.
MaxExt == 2
\* Length of a string value in the configuration file, at most.
MaxStr == 2
\* Number of equal steps that the values of Math.random are sampled at.
RandGrid == 32768
\* Length of an argument given to escapeShell, at most.
MaxArgLen == 2

(***************************************************************************)
(* Program constants.                                                      *)
(***************************************************************************)
\* const [first, last] = [49152, 65535];
FirstPort == 49152
LastPort == 65535
\* the forward_port argument of "local"; 0 stands for undefined
ForwardPortArg == 8000
Undefined == 0

(***************************************************************************)
(* randomAppPort: Math.round((last - first) * Math.random()) + first.      *)
(* Math.round rounds half up: round(n / d) = floor((2n + d) / 2d).         *)
(***************************************************************************)
\* A variant that rounds down.
MathFloor(n, d) == n \div d

MathRound(n, d) == (2 * n + d) \div (2 * d)

randomAppPort(k) == MathRound((LastPort - FirstPort) * k, RandDen) + FirstPort

RandomSource == 0 .. (RandDen - 1)

\* randomAppPort where Math.random returns r[1] / r[2]
randomAppPortAt(r) == MathRound((LastPort - FirstPort) * r[1], r[2]) + FirstPort

(***************************************************************************)
(* JSON.stringify and JSON.parse of a Persistent value { appPort }.  A     *)
(* text is a sequence of characters; the quoted key is kept as one         *)
(* element.                                                                *)
(***************************************************************************)
DigitChars == <<"0", "1", "2", "3", "4", "5", "6", "7", "8", "9">>

IsDigit(ch) == \E d \in 1 .. 10 : DigitChars[d] = ch

DigitValue(ch) == (CHOOSE d \in 1 .. 10 : DigitChars[d] = ch) - 1

RECURSIVE NumberToText(_)
NumberToText(n) ==
    IF n < 10 THEN <<DigitChars[n + 1]>>
    ELSE Append(NumberToText(n \div 10), DigitChars[(n % 10) + 1])

RECURSIVE TextToNumber(_)
TextToNumber(t) ==
    IF Len(t) = 0 THEN 0
    ELSE 10 * TextToNumber(SubSeq(t, 1, Len(t) - 1)) + DigitValue(t[Len(t)])

\* JSON.stringify(data) for data: Persistent
JsonStringify(data) == <<"{", "\"appPort\"", ":">> \o NumberToText(data.appPort) \o <<"}">>

\* The number literal of a text {"appPort":<number>}
NumberPart(text) == SubSeq(text, 4, Len(text) - 1)

\* Whether JSON.parse(text) returns; it throws a SyntaxError otherwise.  The
\* texts of the model are the empty text, the texts JsonStringify writes and
\* their proper prefixes: of these only a complete object is JSON.
JsonParses(text) ==
    /\ Len(text) >= 5
    /\ text[1] = "{"
    /\ text[2] = "\"appPort\""
    /\ text[3] = ":"
    /\ text[Len(text)] = "}"
    /\ \A i \in 1 .. Len(NumberPart(text)) : IsDigit(NumberPart(text)[i])
    /\ (Len(NumberPart(text)) > 1 => NumberPart(text)[1] # "0")

\* JSON.parse(text) as Persistent, where it returns
JsonParse(text) == [appPort |-> TextToNumber(NumberPart(text))]

(***************************************************************************)
(* The dev container configuration: a JSON object.  A document is the      *)
(* sequence of its members in order; a value is a number or a string and   *)
(* carries its characters.  In a text a quoted key is one element, every   *)
(* other element is one character.                                         *)
(***************************************************************************)
NumberValue(n) == [type |-> "number", chars |-> NumberToText(n)]
StringValue(s) == [type |-> "string", chars |-> s]
Member(k, v) == [key |-> k, value |-> v]

Keys == {"appPort", "name"}
KeyToken(k) == IF k = "appPort" THEN "\"appPort\"" ELSE "\"name\""
IsKeyToken(ch) == \E k \in Keys : KeyToken(k) = ch
KeyOf(ch) == CHOOSE k \in Keys : KeyToken(k) = ch

HasKey(doc, k) == \E i \in 1 .. Len(doc) : doc[i].key = k
ValueOf(doc, k) == doc[CHOOSE i \in 1 .. Len(doc) : doc[i].key = k].value

\* A variant of the spread that lets the configuration's own member win:
\* { appPort, ...configJson }.
PutUnlessPresent(doc, k, v) ==
    IF HasKey(doc, k) THEN doc ELSE Append(doc, Member(k, v))

\* Assigning member k of an object: an existing member keeps its place
\* and takes the new value, a new member goes last.  This is what the
\* object literal { ...configJson, appPort } does with k = appPort.
Put(doc, k, v) ==
    IF HasKey(doc, k)
    THEN [i \in 1 .. Len(doc) |-> IF doc[i].key = k THEN Member(k, v) ELSE doc[i]]
    ELSE Append(doc, Member(k, v))

\* JSON.stringify of a document.
ValueText(v) == IF v.type = "string" THEN <<"\"">> \o v.chars \o <<"\"">> ELSE v.chars

RECURSIVE MembersText(_)
MembersText(doc) ==
    IF doc = <<>> THEN <<>>
    ELSE <<KeyToken(Head(doc).key), ":">> \o ValueText(Head(doc).value)
         \o (IF Len(doc) > 1 THEN <<",">> ELSE <<>>) \o MembersText(Tail(doc))

StringifyDoc(doc) == <<"{">> \o MembersText(doc) \o <<"}">>

\* configText.replace(/\/\/.*$/gm, ""): every match runs from two slashes
\* to the end of its line, the line terminator excluded, wherever in the
\* line the slashes stand.
RECURSIVE StripFrom(_, _)
StripFrom(text, inMatch) ==
    IF text = <<>> THEN <<>>
    ELSE IF inMatch THEN
        IF Head(text) = "\n" THEN <<"\n">> \o StripFrom(Tail(text), FALSE)
        ELSE StripFrom(Tail(text), TRUE)
    ELSE IF Len(text) >= 2 /\ text[1] = "/" /\ text[2] = "/" THEN
        StripFrom(Tail(Tail(text)), TRUE)
    ELSE <<Head(text)>> \o StripFrom(Tail(text), FALSE)

StripComments(text) == StripFrom(text, FALSE)

\* JSON.parse of a text: white space between tokens is skipped, a string
\* runs to the next quote and holds no line terminator, a number is a run
\* of digits without a leading zero.
IsSpace(ch) == ch \in {" ", "\n"}

RECURSIVE SkipSpace(_)
SkipSpace(t) == IF t # <<>> /\ IsSpace(Head(t)) THEN SkipSpace(Tail(t)) ELSE t

RECURSIVE DigitRun(_)
DigitRun(t) == IF t # <<>> /\ IsDigit(Head(t)) THEN 1 + DigitRun(Tail(t)) ELSE 0

\* the place of the closing quote in t, 0 if the string is not closed
RECURSIVE ClosingQuote(_)
ClosingQuote(t) ==
    IF t = <<>> \/ Head(t) = "\n" THEN 0
    ELSE IF Head(t) = "\"" THEN 1
    ELSE IF ClosingQuote(Tail(t)) = 0 THEN 0 ELSE 1 + ClosingQuote(Tail(t))

ParseFails == [ok |-> FALSE, doc |-> <<>>]
NoValue == [ok |-> FALSE, value |-> StringValue(<<>>), rest |-> <<>>]

ParseValue(t) ==
    IF t = <<>> THEN NoValue
    ELSE IF Head(t) = "\"" THEN
        LET n == ClosingQuote(Tail(t))
        IN  IF n = 0 THEN NoValue
            ELSE [ok |-> TRUE, value |-> StringValue(SubSeq(t, 2, n)),
                  rest |-> SubSeq(t, n + 2, Len(t))]
    ELSE IF IsDigit(Head(t)) THEN
        LET n == DigitRun(t)
        IN  IF n > 1 /\ Head(t) = "0" THEN NoValue
            ELSE [ok |-> TRUE, value |-> [type |-> "number", chars |-> SubSeq(t, 1, n)],
                  rest |-> SubSeq(t, n + 1, Len(t))]
    ELSE NoValue

RECURSIVE ParseMembers(_, _)
ParseMembers(t, acc) ==
    LET t1 == SkipSpace(t)
    IN  IF t1 = <<>> \/ ~IsKeyToken(Head(t1)) THEN ParseFails
        ELSE LET t2 == SkipSpace(Tail(t1))
             IN  IF t2 = <<>> \/ Head(t2) # ":" THEN ParseFails
                 ELSE LET v == ParseValue(SkipSpace(Tail(t2)))
                          t3 == SkipSpace(v.rest)
                          acc2 == Put(acc, KeyOf(Head(t1)), v.value)
                      IN  IF ~v.ok \/ t3 = <<>> THEN ParseFails
                          ELSE IF Head(t3) = "," THEN ParseMembers(Tail(t3), acc2)
                          ELSE IF Head(t3) = "}" /\ SkipSpace(Tail(t3)) = <<>>
                               THEN [ok |-> TRUE, doc |-> acc2]
                          ELSE ParseFails

ParseDoc(text) ==
    LET t == SkipSpace(text)
    IN  IF t = <<>> \/ Head(t) # "{" THEN ParseFails
        ELSE LET t1 == SkipSpace(Tail(t))
             IN  IF t1 # <<>> /\ Head(t1) = "}"
                 THEN (IF SkipSpace(Tail(t1)) = <<>> THEN [ok |-> TRUE, doc |-> <<>>]
                       ELSE ParseFails)
                 ELSE ParseMembers(t1, <<>>)

\* A raw configuration text: the JSON text of a document laid out one
\* member to a line, each line followed by an end-of-line comment or not.
Comment == <<" ", "/", "/", "n">>

RECURSIVE MemberLines(_, _)
MemberLines(doc, commented) ==
    IF doc = <<>> THEN <<>>
    ELSE <<KeyToken(Head(doc).key), ":", " ">> \o ValueText(Head(doc).value)
         \o (IF Len(doc) > 1 THEN <<",">> ELSE <<>>)
         \o (IF commented THEN Comment ELSE <<>>) \o <<"\n">>
         \o MemberLines(Tail(doc), commented)

ConfigText(doc, commented) == <<"{", "\n">> \o MemberLines(doc, commented) \o <<"}">>

NoDoc == <<Member("none", StringValue(<<>>))>>
NoFile == [doc |-> NoDoc, text |-> <<>>]

(***************************************************************************)
(* State.                                                                  *)
(***************************************************************************)
VARIABLES
    \* the program run (main)
    runs,           \* how many times the program has been started
    pc,             \* "idle": no program runs; otherwise the await the run is at
    action,         \* the action argument of the run
    forwardPort,    \* the forward_port argument of "local", or Undefined
    extLeft,        \* the extensions installExtensions has still to install
    appPort,        \* the local appPort of setUpContainer / runWebUi, 0 before it is set
    child,          \* the child process the run awaits
    started,        \* the steps (child processes) the run has started, in order
    outcomes,       \* how each finished step of the run ended
    result,         \* how the last workflow ended: "none", "ok" (returned), "error" (threw)
    errorKind,      \* what it threw
    \* the container (environment)
    container,      \* whether the container exists
    dir,            \* whether the directory ~/.myspace exists in it
    file,           \* the text of ~/.myspace/persist.json, or Absent
    \* what the run handed to its collaborators
    overrideConfig, \* appPort of the override configuration written to "up", 0 if none
    upExit,         \* how the child of Cli.up ended, "none" before
    upReturn,       \* "returned" or "threw" once Cli.up has ended, "none" before
    written,        \* the appPort of the last writePersistent that returned, 0 if none
    created,        \* the port allocated by the last setUpContainer that returned, 0 if none
    servicePort,    \* --port of the serve-web invocation of the run, 0 if none
    \* the forwarding proxy of the run
    listener,       \* "none" or "listening"
    listenPort,     \* the port it listens on
    targetPort,     \* the port it connects to
    from,           \* from[i]: the accepted socket of pair i
    to,             \* to[i]: the socket of pair i connected to the target port
    inBuf,          \* inBuf[i]: bytes read from the client of pair i, not yet piped
    outBuf,         \* outBuf[c]: bytes read from target connection c, not yet piped
    clientSent,     \* clientSent[i]: all bytes client i has sent
    targetRecv,     \* targetRecv[c]: all bytes delivered on target connection c
    targetSent,     \* targetSent[c]: all bytes the target has sent on connection c
    clientRecv,     \* clientRecv[i]: all bytes delivered to client i
    errored,        \* the sockets <<side, i>> that have emitted an error event
    crashed,        \* whether an unhandled socket error has ended the program
    \* what the run read and wrote on the way to "up"
    rcRead,         \* the last call of Cli.readConfiguration: what it captured and did
    configFile,     \* the configuration file setUpContainer read, NoFile if none
    configJson,     \* what setUpContainer parsed from it, NoDoc if nothing
    overrideDoc,    \* the override configuration passed to Cli.up, NoDoc if none
    upStdin,        \* what Cli.up did to the standard input of its child, in order
    rnd,            \* the value Math.random returned, <<numerator, denominator>>
    \* the trace and the child processes of the run
    events,         \* the trace lines written and the processes spawned, in order
    running,        \* the started children that have reported neither close nor error
    \* a command line handed to the shell
    args,           \* the argument list given to escapeShell
    words           \* the words the shell splits the command line into

argVars == <<runs, action, forwardPort, extLeft>>
runVars == <<argVars, pc, appPort, child, started, outcomes, result, errorKind>>
envVars == <<container, dir, file>>
histVars == <<overrideConfig, upExit, upReturn, created, written, servicePort>>
listenVars == <<listener, listenPort, targetPort>>
pairVars == <<from, to, inBuf, outBuf, clientSent, targetRecv, targetSent, clientRecv,
              errored, crashed>>
cfgVars == <<rcRead, configFile, configJson, overrideDoc, upStdin, rnd>>
procVars == <<events, running>>
shVars == <<args, words>>
vars == <<runVars, envVars, histVars, listenVars, pairVars, cfgVars, procVars, shVars>>

Absent == <<"absent">>
Pairs == 1 .. MaxPairs
NoChild == [cmd |-> "none", stdin |-> "none", wfail |-> FALSE]
NoRead == [outcome |-> "none", stdout |-> "none", parsed |-> FALSE, threw |-> "none"]
NoRandom == <<0, 0>>
NoWords == [done |-> FALSE, ok |-> FALSE, words |-> <<>>]
Actions == {"up", "tunnel", "local", "extensions", "unregister", "bash"}
ForwardPorts == {Undefined, ForwardPortArg}
\* A child process ends with the close event (exit status zero or not) or,
\* when it could not be spawned, with the error event.
Outcomes == {"exit0", "exit1", "spawnerr"}

\* Nothing has run yet.
Fresh ==
    /\ runs = 0 /\ pc = "idle" /\ action = "none" /\ forwardPort = Undefined
    /\ extLeft = 0
    /\ appPort = 0 /\ child = NoChild /\ started = <<>> /\ outcomes = <<>>
    /\ result = "none" /\ errorKind = "none"
    /\ container = FALSE /\ dir = FALSE /\ file = Absent
    /\ overrideConfig = 0 /\ upExit = "none" /\ upReturn = "none"
    /\ created = 0 /\ written = 0 /\ servicePort = 0
    /\ listener = "none" /\ listenPort = 0 /\ targetPort = 0
    /\ from = [i \in Pairs |-> "none"] /\ to = [i \in Pairs |-> "none"]
    /\ inBuf = [i \in Pairs |-> <<>>] /\ outBuf = [i \in Pairs |-> <<>>]
    /\ clientSent = [i \in Pairs |-> <<>>] /\ targetRecv = [i \in Pairs |-> <<>>]
    /\ targetSent = [i \in Pairs |-> <<>>] /\ clientRecv = [i \in Pairs |-> <<>>]
    /\ errored = {} /\ crashed = FALSE
    /\ rcRead = NoRead /\ configFile = NoFile /\ configJson = NoDoc
    /\ overrideDoc = NoDoc /\ upStdin = <<>>
    /\ events = <<>> /\ running = {}
    /\ words = NoWords

Init == Fresh /\ rnd = NoRandom /\ args = <<>>

\* The process ends: its listener and its sockets go with it.
ProcessGone ==
    /\ listener' = "none" /\ listenPort' = 0 /\ targetPort' = 0
    /\ from' = [i \in Pairs |-> "none"] /\ to' = [i \in Pairs |-> "none"]
    /\ inBuf' = [i \in Pairs |-> <<>>] /\ outBuf' = [i \in Pairs |-> <<>>]
    /\ clientSent' = [i \in Pairs |-> <<>>] /\ targetRecv' = [i \in Pairs |-> <<>>]
    /\ targetSent' = [i \in Pairs |-> <<>>] /\ clientRecv' = [i \in Pairs |-> <<>>]
    /\ errored' = {}

(***************************************************************************)
(* Child processes.                                                        *)
(***************************************************************************)
\* waitForChild: the promise resolves on the close event, whatever the exit
\* status, and rejects on the error event.
waitForChild(outcome) == IF outcome = "spawnerr" THEN "reject" ELSE "resolve"

\* A variant that gives up on a failed write and leaves the stream open.
StdinLeftOpenOnFailedWrite(writeOk) == IF writeOk THEN "closed" ELSE "open"

\* child.stdin.write(...); child.stdin.end(): a failing write reports its
\* error later, as an event, so end() runs whether the write succeeds or not.
StdinAfterWrite(writeOk) == "closed"

\* The argument vector of the external tool for a step of a workflow:
\* [command, ...Cli.projectArgs(project), ...args].  Cli.exec passes the
\* command to run in the container, kept here as one word.
Subcommand(cmd) ==
    CASE cmd = "readConfiguration" -> "read-configuration"
      [] cmd = "up" -> "up"
      [] OTHER -> "exec"

projectArgs == <<"--workspace-folder", "workspaceFolder">>

FurtherArgs(cmd) ==
    CASE cmd = "readConfiguration" -> <<>>
      [] cmd = "up" -> <<"--override-config", "/dev/stdin">>
      [] OTHER -> <<cmd>>

cliArgs(cmd) == <<Subcommand(cmd)>> \o projectArgs \o FurtherArgs(cmd)

\* log(...message): console.error("+", ...message)
log(message) == [kind |-> "log", line |-> message]

\* A variant that spawns the process first and writes the trace line after.
CliSpawnThenLog(cmd) ==
    <<[kind |-> "spawn", line |-> cliArgs(cmd)], log(<<"devcontainer">> \o cliArgs(cmd))>>

\* Cli.spawn and Cli.spawnInShell: the trace line, then the process.
CliSpawn(cmd) ==
    <<log(<<"devcontainer">> \o cliArgs(cmd)), [kind |-> "spawn", line |-> cliArgs(cmd)]>>

\* A variant of a call that is not awaited: the child is still running
\* when the workflow goes on.
RunningWithoutWait(r, c) == r

\* The children still running when the workflow resumes from
\* `await waitForChild(c)`: the promise settles on the close or the error
\* event of c, so c is none of them.
RunningAfterWait(r, c) == r \ {c}

\* Cli.spawn / Cli.spawnInShell / Cli.exec: the child the run awaits next,
\* started once the child awaited before has ended and `before` is logged.
SpawnLogged(before, cmd, stdin, wfail) ==
    /\ child' = [cmd |-> cmd, stdin |-> stdin, wfail |-> wfail]
    /\ started' = Append(started, cmd)
    /\ events' = events \o before \o CliSpawn(cmd)
    /\ running' = RunningAfterWait(running, Len(started)) \cup {Len(started) + 1}

Spawn(cmd, stdin, wfail) == SpawnLogged(<<>>, cmd, stdin, wfail)

\* A child whose standard input is a pipe: write, end, then await.
SpawnPiped(cmd) ==
    \E writeOk \in BOOLEAN : Spawn(cmd, StdinAfterWrite(writeOk), ~writeOk)

\* The awaited child ends with `outcome`.  A command run in the container
\* (every command but read-configuration and up) can exit with status zero
\* only if the container exists.
Ends(at, outcome) ==
    /\ pc = at
    /\ ~child.wfail
    /\ outcome \in Outcomes
    /\ (outcome = "exit0" /\ child.cmd \notin {"readConfiguration", "up"}) => container
    /\ outcomes' = Append(outcomes, outcome)

\* The workflow throws: main rejects and the process ends.
Throw(kind) ==
    /\ pc' = "idle" /\ child' = NoChild
    /\ result' = "error" /\ errorKind' = kind
    /\ ProcessGone /\ crashed' = crashed
    /\ events' = events
    /\ running' = RunningAfterWait(running, Len(started))

\* The workflow returns; the process stays while its listener is open.
Return ==
    /\ pc' = IF listener = "listening" THEN "serving" ELSE "idle"
    /\ child' = NoChild
    /\ result' = "ok" /\ errorKind' = "none"
    /\ events' = events
    /\ running' = RunningAfterWait(running, Len(started))

(***************************************************************************)
(* main                                                                    *)
(***************************************************************************)
FirstStep(a) ==
    CASE a = "up" -> [pc |-> "rc_wait", cmd |-> "readConfiguration", stdin |-> "ignore"]
      [] a = "extensions" -> [pc |-> "extrc_wait", cmd |-> "readConfiguration", stdin |-> "ignore"]
      [] a = "local" -> [pc |-> "read_wait", cmd |-> "readPersistent", stdin |-> "inherit"]
      [] a = "tunnel" -> [pc |-> "exec_wait", cmd |-> "tunnel", stdin |-> "inherit"]
      [] a = "unregister" -> [pc |-> "exec_wait", cmd |-> "unregister", stdin |-> "inherit"]
      [] a = "bash" -> [pc |-> "exec_wait", cmd |-> "bash", stdin |-> "inherit"]

\* main(): dispatch on the action; each workflow runs up to its first await.
Main(a, fp) ==
    /\ pc = "idle"
    /\ runs < MaxRuns
    /\ a \in Actions
    /\ fp \in ForwardPorts
    /\ (a # "local" => fp = Undefined)
    /\ runs' = runs + 1
    /\ action' = a
    /\ forwardPort' = fp
    /\ extLeft' = 0
    /\ appPort' = 0
    /\ pc' = FirstStep(a).pc
    /\ child' = [cmd |-> FirstStep(a).cmd, stdin |-> FirstStep(a).stdin, wfail |-> FALSE]
    /\ started' = <<FirstStep(a).cmd>>
    /\ events' = CliSpawn(FirstStep(a).cmd)
    /\ running' = {1}
    /\ outcomes' = <<>>
    /\ rcRead' = NoRead /\ configFile' = NoFile /\ configJson' = NoDoc
    /\ overrideDoc' = NoDoc /\ upStdin' = <<>> /\ rnd' = NoRandom
    /\ UNCHANGED shVars
    /\ result' = "none" /\ errorKind' = "none"
    /\ overrideConfig' = 0 /\ upExit' = "none" /\ upReturn' = "none"
    /\ servicePort' = 0 /\ crashed' = FALSE
    /\ UNCHANGED <<envVars, created, written, listenVars>>
    /\ UNCHANGED <<from, to, inBuf, outBuf, clientSent, targetRecv, targetSent, clientRecv,
                   errored>>

(***************************************************************************)
(* setUpContainer                                                          *)
(***************************************************************************)
\* What read-configuration prints: nothing, a JSON document, or other text.
ConfigOutputs == {"empty", "json", "garbage"}

\* A variant that parses whatever was captured, empty or not.
readConfigurationParsesFirst(outcome, stdout) ==
    IF waitForChild(outcome) = "reject" THEN [parsed |-> FALSE, threw |-> "spawn"]
    ELSE [parsed |-> TRUE, threw |-> IF stdout = "json" THEN "none" ELSE "SyntaxError"]

\* Cli.readConfiguration, once its child has ended:
\*     const text = await waitForChildWithStdout(child);
\*     if (!text) throw "unable to read dev container configuration; ...";
\*     return JSON.parse(text);
readConfiguration(outcome, stdout) ==
    IF waitForChild(outcome) = "reject" THEN [parsed |-> FALSE, threw |-> "spawn"]
    ELSE IF stdout = "empty" THEN [parsed |-> FALSE, threw |-> "ConfigurationUnavailable"]
    ELSE [parsed |-> TRUE, threw |-> IF stdout = "garbage" THEN "SyntaxError" ELSE "none"]

\* The record kept of a call of Cli.readConfiguration.
ReadRecord(outcome, stdout) ==
    [outcome |-> outcome, stdout |-> stdout,
     parsed |-> readConfiguration(outcome, stdout).parsed,
     threw |-> readConfiguration(outcome, stdout).threw]

\* The configuration files a project may have: one member, a member after
\* an appPort of the project's own, and a string value with two slashes;
\* every line carries an end-of-line comment.
ProjectDocs ==
    {<<Member("name", StringValue(<<"x">>))>>,
     <<Member("appPort", NumberValue(3000)), Member("name", StringValue(<<"x">>))>>,
     <<Member("name", StringValue(<<"/", "/">>))>>}

ProjectFiles == {[doc |-> d, text |-> ConfigText(d, TRUE)] : d \in ProjectDocs}

\* Every configuration file with a string value of at most MaxStr
\* characters, with or without an appPort of the project's own, with or
\* without end-of-line comments.
StringChars == {"x", "/"}
Strings == UNION {[1 .. n -> StringChars] : n \in 0 .. MaxStr}
ConfigDocs ==
    {<<Member("name", StringValue(str))>> : str \in Strings}
    \cup {<<Member("appPort", NumberValue(3000)), Member("name", StringValue(str))>> :
            str \in Strings}
ConfigFiles ==
    {[doc |-> d, text |-> ConfigText(d, c)] : d \in ConfigDocs, c \in BOOLEAN}

\* The appPort member of a document, as a number.
AppPortOf(doc) == TextToNumber(ValueOf(doc, "appPort").chars)

\* A variant of Cli.up that leaves out the newline.
UpWritesWithoutNewline(doc) ==
    <<[op |-> "write", data |-> StringifyDoc(doc)], [op |-> "end", data |-> <<>>]>>

\* Cli.up on the standard input of its child:
\*     child.stdin.write(JSON.stringify(overrideConfig));
\*     child.stdin.write("\n");
\*     child.stdin.end();
UpWrites(doc) ==
    <<[op |-> "write", data |-> StringifyDoc(doc)],
      [op |-> "write", data |-> <<"\n">>],
      [op |-> "end", data |-> <<>>]>>

\* The shell of Cli.spawnInShell runs "cat | <tool>": cat copies its input,
\* byte after byte, to the standard input of the tool.
RECURSIVE Cat(_)
Cat(bytes) == IF bytes = <<>> THEN <<>> ELSE <<Head(bytes)>> \o Cat(Tail(bytes))

\* Cli.readConfiguration ends, and setUpContainer runs on to Cli.up: it
\* allocates the port, reads the configuration file f, strips its comments,
\* parses it and writes the override configuration { ...configJson, appPort }
\* to the shell that runs "up".
RcEnds(outcome, stdout, k, configFileOk, f) ==
    /\ Ends("rc_wait", outcome)
    /\ stdout \in ConfigOutputs
    /\ (outcome = "spawnerr") => stdout = "empty"
    /\ k \in RandomSource
    /\ configFileOk \in BOOLEAN
    /\ f \in ConfigFiles
    /\ rcRead' = ReadRecord(outcome, stdout)
    /\ IF readConfiguration(outcome, stdout).threw # "none" THEN
            /\ Throw(readConfiguration(outcome, stdout).threw)
            /\ UNCHANGED <<appPort, started, overrideConfig, configFile, configJson,
                           overrideDoc, upStdin, rnd>>
       ELSE IF ~configFileOk THEN
            /\ appPort' = randomAppPort(k)
            /\ rnd' = <<k, RandDen>>
            /\ Throw("configFile")
            /\ UNCHANGED <<started, overrideConfig, configFile, configJson, overrideDoc,
                           upStdin>>
       ELSE IF ~ParseDoc(StripComments(f.text)).ok THEN
            /\ appPort' = randomAppPort(k)
            /\ rnd' = <<k, RandDen>>
            /\ configFile' = f
            /\ Throw("SyntaxError")
            /\ UNCHANGED <<started, overrideConfig, configJson, overrideDoc, upStdin>>
       ELSE
            /\ appPort' = randomAppPort(k)
            /\ rnd' = <<k, RandDen>>
            /\ configFile' = f
            /\ configJson' = ParseDoc(StripComments(f.text)).doc
            /\ overrideDoc' = Put(configJson', "appPort", NumberValue(appPort'))
            /\ overrideConfig' = AppPortOf(overrideDoc')
            /\ upStdin' = UpWrites(overrideDoc')
            /\ SpawnPiped("up")
            /\ pc' = "up_wait"
            /\ UNCHANGED <<result, errorKind, listenVars, pairVars>>
    /\ UNCHANGED <<argVars, shVars, envVars, upExit, upReturn, created, written,
                   servicePort>>

\* A variant that writes the state without creating its directory.
PersistStepsWithoutMkdir == <<"writePersistent">>

\* What setUpContainer does, after Cli.up, for the persistent state:
\*     await waitForChild(Cli.exec(project, ["sh", "-c", `mkdir -p ${persistPath}`]));
\*     await writePersistent(project, { appPort });
PersistSteps == <<"mkdir", "writePersistent">>

\* Cli.up ends; setUpContainer creates the directory for persistent storage.
UpEnds(outcome) ==
    /\ Ends("up_wait", outcome)
    /\ upExit' = outcome
    /\ container' = (container \/ outcome = "exit0")
    /\ IF waitForChild(outcome) = "reject" THEN
            /\ upReturn' = "threw"
            /\ Throw("spawn")
            /\ UNCHANGED started
       ELSE
            /\ upReturn' = "returned"
            /\ IF Head(PersistSteps) = "mkdir" THEN
                    /\ Spawn("mkdir", "inherit", FALSE)
                    /\ pc' = "mkdir_wait"
               ELSE
                    /\ SpawnPiped("writePersistent")
                    /\ pc' = "write_wait"
            /\ UNCHANGED <<result, errorKind, listenVars, pairVars>>
    /\ UNCHANGED <<argVars, cfgVars, shVars, appPort, dir, file, overrideConfig, created, written,
                   servicePort>>

\* mkdir -p ~/.myspace ends; writePersistent writes { appPort }.
MkdirEnds(outcome) ==
    /\ Ends("mkdir_wait", outcome)
    /\ dir' = (dir \/ outcome = "exit0")
    /\ IF waitForChild(outcome) = "reject" THEN
            /\ Throw("spawn")
            /\ UNCHANGED started
       ELSE
            /\ SpawnPiped("writePersistent")
            /\ pc' = "write_wait"
            /\ UNCHANGED <<result, errorKind, listenVars, pairVars>>
    /\ UNCHANGED <<argVars, cfgVars, shVars, appPort, container, file, histVars>>

\* What "cat >persist.json" leaves when it exits with a non-zero status:
\* the file untouched (the redirection failed), or truncated by the
\* redirection with none or only a part of the text written after.
FailedWrite(old, text) ==
    {old} \cup (IF dir THEN {<<>>, SubSeq(text, 1, Len(text) - 1)} ELSE {})

\* writePersistent ends; setUpContainer downloads the VS Code CLI.
WriteEnds(outcome) ==
    /\ Ends("write_wait", outcome)
    /\ (outcome = "exit0") => dir
    /\ file' \in CASE outcome = "exit0" -> {JsonStringify([appPort |-> appPort])}
                   [] outcome = "exit1" -> FailedWrite(file, JsonStringify([appPort |-> appPort]))
                   [] OTHER -> {file}
    /\ IF waitForChild(outcome) = "reject" THEN
            /\ Throw("spawn")
            /\ UNCHANGED written
            /\ UNCHANGED started
       ELSE
            /\ written' = appPort
            /\ Spawn("download", "inherit", FALSE)
            /\ pc' = "download_wait"
            /\ UNCHANGED <<result, errorKind, listenVars, pairVars>>
    /\ UNCHANGED <<argVars, cfgVars, shVars, appPort, container, dir, overrideConfig, upExit,
                   upReturn, created, servicePort>>

\* The download ends; setUpContainer creates the settings directory.
DownloadEnds(outcome) ==
    /\ Ends("download_wait", outcome)
    /\ IF waitForChild(outcome) = "reject" THEN
            /\ Throw("spawn")
            /\ UNCHANGED started
       ELSE
            /\ Spawn("mkdirSettings", "inherit", FALSE)
            /\ pc' = "mkdirSettings_wait"
            /\ UNCHANGED <<result, errorKind, listenVars, pairVars>>
    /\ UNCHANGED <<argVars, cfgVars, shVars, appPort, envVars, histVars>>

\* mkdir of the settings directory ends; setUpContainer writes the settings.
MkdirSettingsEnds(outcome) ==
    /\ Ends("mkdirSettings_wait", outcome)
    /\ IF waitForChild(outcome) = "reject" THEN
            /\ Throw("spawn")
            /\ UNCHANGED started
       ELSE
            /\ SpawnPiped("saveSettings")
            /\ pc' = "settings_wait"
            /\ UNCHANGED <<result, errorKind, listenVars, pairVars>>
    /\ UNCHANGED <<argVars, cfgVars, shVars, appPort, envVars, histVars>>

\* The settings are written; setUpContainer returns.
SettingsEnds(outcome) ==
    /\ Ends("settings_wait", outcome)
    /\ IF waitForChild(outcome) = "reject" THEN
            /\ Throw("spawn")
            /\ UNCHANGED created
       ELSE
            /\ Return
            /\ created' = appPort
            /\ UNCHANGED <<listenVars, pairVars>>
    /\ UNCHANGED <<argVars, cfgVars, shVars, appPort, started, envVars, overrideConfig,
                   upExit, upReturn, written, servicePort>>

\* A write to the standard input of the awaited child has failed: the stream
\* emits an error event nobody listens to, which ends the process.
StdinError ==
    /\ pc \in {"up_wait", "write_wait", "settings_wait"}
    /\ child.wfail
    /\ outcomes' = Append(outcomes, "stdinerr")
    /\ upExit' = upExit
    /\ upReturn' = IF pc = "up_wait" THEN "threw" ELSE upReturn
    /\ file' \in (IF pc = "write_wait"
                   THEN FailedWrite(file, JsonStringify([appPort |-> appPort]))
                   ELSE {file})
    /\ Throw("stdin")
    /\ UNCHANGED <<argVars, cfgVars, shVars, appPort, started, container, dir, overrideConfig,
                   created, written, servicePort>>

(***************************************************************************)
(* runWebUi                                                                *)
(***************************************************************************)
\* A variant whose command redirects into the state file.
StateFileTruncatedByRead(f) == <<>>

\* The state file after the command of readPersistent has run:
\* "cat ~/.myspace/persist.json" reads the file and writes nothing.
StateFileAfterRead(f) == f

\* What "cat persist.json" prints: the file, or nothing when it fails.
CatOutput(outcome) == IF outcome = "exit0" THEN file ELSE <<>>

\* A variant that falls back to the first port when the state is unreadable.
readPersistentWithFallback(text) ==
    IF JsonParses(text) THEN [threw |-> FALSE, appPort |-> JsonParse(text).appPort]
    ELSE [threw |-> FALSE, appPort |-> FirstPort]

\* readPersistent: JSON.parse of the captured output; it throws where
\* JSON.parse throws and has no fallback value.
readPersistent(text) ==
    IF JsonParses(text) THEN [threw |-> FALSE, appPort |-> JsonParse(text).appPort]
    ELSE [threw |-> TRUE, appPort |-> 0]

\* if (forwardPort !== undefined) net.createServer(...).listen(forwardPort)
ListenerFor(fp) == IF fp # Undefined THEN "listening" ELSE "none"

\* ... and, in the same branch, log("**", "Forwarding on port ...", "**")
ForwardingLog(fp) ==
    IF fp # Undefined THEN <<log(<<"**", "Forwarding on port", "**">>)>> ELSE <<>>

\* readPersistent ends; runWebUi opens the port proxy, if asked to, and
\* starts "code serve-web --port appPort".
ReadEnds(outcome) ==
    /\ Ends("read_wait", outcome)
    /\ (outcome = "exit0") => file # Absent
    /\ file' = IF outcome = "spawnerr" THEN file ELSE StateFileAfterRead(file)
    /\ IF waitForChild(outcome) = "reject" THEN
            /\ Throw("spawn")
            /\ UNCHANGED <<appPort, started, servicePort>>
       ELSE IF readPersistent(CatOutput(outcome)).threw THEN
            /\ Throw("SyntaxError")
            /\ UNCHANGED <<appPort, started, servicePort>>
       ELSE
            /\ appPort' = readPersistent(CatOutput(outcome)).appPort
            /\ listener' = ListenerFor(forwardPort)
            /\ listenPort' = IF listener' = "listening" THEN forwardPort ELSE 0
            /\ targetPort' = IF listener' = "listening" THEN appPort' ELSE 0
            /\ servicePort' = appPort'
            /\ SpawnLogged(ForwardingLog(forwardPort), "serveWeb", "inherit", FALSE)
            /\ pc' = "serve_wait"
            /\ UNCHANGED <<result, errorKind, pairVars>>
    /\ UNCHANGED <<argVars, cfgVars, shVars, container, dir, overrideConfig, upExit, upReturn,
                   created, written>>

\* serve-web ends; runWebUi returns.
ServeEnds(outcome) ==
    /\ Ends("serve_wait", outcome)
    /\ IF waitForChild(outcome) = "reject" THEN
            Throw("spawn")
       ELSE
            /\ Return
            /\ UNCHANGED <<listenVars, pairVars>>
    /\ UNCHANGED <<argVars, cfgVars, shVars, appPort, started, envVars, histVars>>

\* The user ends a process that only its listener keeps alive.
Kill ==
    /\ pc = "serving"
    /\ pc' = "idle"
    /\ ProcessGone
    /\ UNCHANGED <<argVars, cfgVars, shVars, procVars, appPort, child, started, outcomes,
                   result, errorKind, envVars, histVars, crashed>>

(***************************************************************************)
(* runTunnel, unregisterTunnel, executeShell                               *)
(***************************************************************************)
ExecEnds(outcome) ==
    /\ Ends("exec_wait", outcome)
    /\ IF waitForChild(outcome) = "reject" THEN
            Throw("spawn")
       ELSE
            /\ Return
            /\ UNCHANGED <<listenVars, pairVars>>
    /\ UNCHANGED <<argVars, cfgVars, shVars, appPort, started, envVars, histVars>>

(***************************************************************************)
(* installExtensions                                                       *)
(***************************************************************************)
\* Cli.readConfiguration ends; installExtensions looks for code-server
\* unless the configuration declares no extension.
ExtRcEnds(outcome, stdout, n) ==
    /\ Ends("extrc_wait", outcome)
    /\ stdout \in ConfigOutputs
    /\ (outcome = "spawnerr") => stdout = "empty"
    /\ n \in 0 .. MaxExt
    /\ rcRead' = ReadRecord(outcome, stdout)
    /\ IF readConfiguration(outcome, stdout).threw # "none" THEN
            /\ Throw(readConfiguration(outcome, stdout).threw)
            /\ UNCHANGED <<extLeft, started>>
       ELSE IF n = 0 THEN
            /\ Return
            /\ UNCHANGED <<extLeft, started, listenVars, pairVars>>
       ELSE
            /\ extLeft' = n
            /\ Spawn("find", "ignore", FALSE)
            /\ pc' = "find_wait"
            /\ UNCHANGED <<result, errorKind, listenVars, pairVars>>
    /\ UNCHANGED <<runs, action, forwardPort, configFile, configJson, overrideDoc,
                   upStdin, rnd, shVars, appPort, envVars, histVars>>

\* find ends; installExtensions installs the first extension, or throws
\* when find printed no path.
FindEnds(outcome, found) ==
    /\ Ends("find_wait", outcome)
    /\ found \in BOOLEAN
    /\ found => outcome = "exit0"
    /\ IF waitForChild(outcome) = "reject" THEN
            /\ Throw("spawn")
            /\ UNCHANGED started
       ELSE IF ~found THEN
            /\ Throw("DependencyNotFound")
            /\ UNCHANGED started
       ELSE
            /\ Spawn("install", "inherit", FALSE)
            /\ pc' = "install_wait"
            /\ UNCHANGED <<result, errorKind, listenVars, pairVars>>
    /\ UNCHANGED <<argVars, cfgVars, shVars, appPort, envVars, histVars>>

\* An installation ends; installExtensions installs the next extension or returns.
InstallEnds(outcome) ==
    /\ Ends("install_wait", outcome)
    /\ IF waitForChild(outcome) = "reject" THEN
            /\ Throw("spawn")
            /\ UNCHANGED <<extLeft, started>>
       ELSE IF extLeft > 1 THEN
            /\ extLeft' = extLeft - 1
            /\ Spawn("install", "inherit", FALSE)
            /\ pc' = "install_wait"
            /\ UNCHANGED <<result, errorKind, listenVars, pairVars>>
       ELSE
            /\ Return
            /\ UNCHANGED <<extLeft, started, listenVars, pairVars>>
    /\ UNCHANGED <<runs, action, forwardPort, cfgVars, shVars, appPort, envVars, histVars>>

(***************************************************************************)
(* The port proxy of runWebUi:                                             *)
(*     net.createServer(from => {                                          *)
(*         const to = net.createConnection({ port: appPort });             *)
(*         from.on("error", to.destroy);                                   *)
(*         from.pipe(to);                                                  *)
(*         to.on("error", from.destroy);                                   *)
(*         to.pipe(from);                                                  *)
(*     }).listen(forwardPort);                                             *)
(* A socket is "none" (not there yet), "open", "ended" (end() was called   *)
(* on it: nothing more is written to it) or "closed" (destroyed).          *)
(***************************************************************************)
\* A variant that opens one connection to the target and shares it.
ConnShared(i) == 1

\* The connection to the target port that the callback opens for the i-th
\* accepted connection: a new one for each.
ConnFor(i) == i

\* A variant that listens for errors of the accepted socket only.
ErrorListenerOnFromOnly(side) == side = "from"

\* Whether the callback registers a listener for the error event of a socket.
HasErrorListener(side) == side \in {"from", "to"}

\* The socket that the error listener of `emitter` destroys.  The listener is
\* the destroy method of the `other` socket, passed without its receiver:
\* the event emitter calls it with `this` set to the emitter.
ErrorListenerDestroys(emitter, other) == emitter

Live(sock) == sock \in {"open", "ended"}

TotalSent ==
    LET RECURSIVE Sum(_)
        Sum(n) == IF n = 0 THEN 0 ELSE Len(clientSent[n]) + Len(targetSent[n]) + Sum(n - 1)
    IN Sum(MaxPairs)

unchangedBytes == <<inBuf, outBuf, clientSent, targetRecv, targetSent, clientRecv>>
notProxy == <<runVars, envVars, histVars, listenVars, crashed, cfgVars, procVars, shVars>>

\* The listener accepts its i-th connection and runs the callback.
Accept(i) ==
    /\ listener = "listening"
    /\ i \in Pairs
    /\ from[i] = "none"
    /\ \A j \in 1 .. (i - 1) : from[j] # "none"
    /\ from' = [from EXCEPT ![i] = "open"]
    /\ to' = [to EXCEPT ![ConnFor(i)] = IF @ = "none" THEN "open" ELSE @]
    /\ UNCHANGED <<unchangedBytes, errored, notProxy>>

\* The client of pair i sends a byte; `from` reads it.
ClientSend(i) ==
    /\ i \in Pairs
    /\ Live(from[i])
    /\ TotalSent < MaxBytes
    /\ clientSent' = [clientSent EXCEPT ![i] = Append(@, <<"c", i, Len(@) + 1>>)]
    /\ inBuf' = [inBuf EXCEPT ![i] = Append(@, <<"c", i, Len(clientSent[i]) + 1>>)]
    /\ UNCHANGED <<from, to, outBuf, targetRecv, targetSent, clientRecv, errored, notProxy>>

\* The target sends a byte on connection c; `to` reads it.
TargetSend(c) ==
    /\ c \in Pairs
    /\ Live(to[c])
    /\ TotalSent < MaxBytes
    /\ targetSent' = [targetSent EXCEPT ![c] = Append(@, <<"t", c, Len(@) + 1>>)]
    /\ outBuf' = [outBuf EXCEPT ![c] = Append(@, <<"t", c, Len(targetSent[c]) + 1>>)]
    /\ UNCHANGED <<from, to, inBuf, clientSent, targetRecv, clientRecv, errored, notProxy>>

\* from.pipe(to): the oldest byte read from the client is written to `to`.
PipeIn(i) ==
    /\ i \in Pairs
    /\ Live(from[i])
    /\ inBuf[i] # <<>>
    /\ to[ConnFor(i)] = "open"
    /\ targetRecv' = [targetRecv EXCEPT ![ConnFor(i)] = Append(@, Head(inBuf[i]))]
    /\ inBuf' = [inBuf EXCEPT ![i] = Tail(@)]
    /\ UNCHANGED <<from, to, outBuf, clientSent, targetSent, clientRecv, errored, notProxy>>

\* to.pipe(from): the oldest byte read from the target is written to `from`.
PipeOut(i) ==
    /\ i \in Pairs
    /\ Live(to[ConnFor(i)])
    /\ outBuf[ConnFor(i)] # <<>>
    /\ from[i] = "open"
    /\ clientRecv' = [clientRecv EXCEPT ![i] = Append(@, Head(outBuf[ConnFor(i)]))]
    /\ outBuf' = [outBuf EXCEPT ![ConnFor(i)] = Tail(@)]
    /\ UNCHANGED <<from, to, inBuf, clientSent, targetRecv, targetSent, errored, notProxy>>

\* The client of pair i closes its connection: `from` emits end once its
\* data is read and closes; the pipe calls to.end().
ClientEnd(i) ==
    /\ i \in Pairs
    /\ Live(from[i])
    /\ inBuf[i] = <<>>
    /\ from' = [from EXCEPT ![i] = "closed"]
    /\ to' = [to EXCEPT ![ConnFor(i)] = IF @ = "open" THEN "ended" ELSE @]
    /\ UNCHANGED <<unchangedBytes, errored, notProxy>>

\* The target closes connection c of pair i: `to` emits end and closes; the
\* pipe calls from.end().
TargetEnd(i) ==
    /\ i \in Pairs
    /\ Live(to[ConnFor(i)])
    /\ outBuf[ConnFor(i)] = <<>>
    /\ to' = [to EXCEPT ![ConnFor(i)] = "closed"]
    /\ from' = [from EXCEPT ![i] = IF @ = "open" THEN "ended" ELSE @]
    /\ UNCHANGED <<unchangedBytes, errored, notProxy>>

\* A socket of pair i fails: it is destroyed with the error and emits the
\* error event.  Without a listener the event is thrown and ends the process.
SocketError(side, i) ==
    /\ i \in Pairs
    /\ side \in {"from", "to"}
    /\ IF side = "from" THEN Live(from[i]) ELSE Live(to[ConnFor(i)])
    /\ IF ~HasErrorListener(side) THEN
            /\ pc' = "idle" /\ child' = NoChild
            /\ result' = "error" /\ errorKind' = "uncaughtSocketError"
            /\ ProcessGone /\ crashed' = TRUE
            /\ events' = events /\ running' = {}
            /\ UNCHANGED <<argVars, cfgVars, shVars, appPort, started, outcomes, envVars,
                           histVars>>
       ELSE
            LET other == IF side = "from" THEN "to" ELSE "from"
                hit == {side, ErrorListenerDestroys(side, other)}
            IN  /\ from' = [from EXCEPT ![i] = IF "from" \in hit THEN "closed" ELSE @]
                /\ to' = [to EXCEPT ![ConnFor(i)] = IF "to" \in hit THEN "closed" ELSE @]
                /\ inBuf' = [inBuf EXCEPT ![i] = IF "from" \in hit THEN <<>> ELSE @]
                /\ outBuf' = [outBuf EXCEPT ![ConnFor(i)] = IF "to" \in hit THEN <<>> ELSE @]
                /\ errored' = errored \cup {<<side, i>>}
                /\ UNCHANGED <<clientSent, targetRecv, targetSent, clientRecv, notProxy>>

(***************************************************************************)
(* The program.                                                            *)
(***************************************************************************)
Next ==
    \/ \E a \in Actions, fp \in ForwardPorts : Main(a, fp)
    \/ \E o \in Outcomes, out \in ConfigOutputs, k \in RandomSource, ok \in BOOLEAN,
          f \in ProjectFiles : RcEnds(o, out, k, ok, f)
    \/ \E o \in Outcomes : UpEnds(o)
    \/ \E o \in Outcomes : MkdirEnds(o)
    \/ \E o \in Outcomes : WriteEnds(o)
    \/ \E o \in Outcomes : DownloadEnds(o)
    \/ \E o \in Outcomes : MkdirSettingsEnds(o)
    \/ \E o \in Outcomes : SettingsEnds(o)
    \/ StdinError
    \/ \E o \in Outcomes : ReadEnds(o)
    \/ \E o \in Outcomes : ServeEnds(o)
    \/ Kill
    \/ \E o \in Outcomes : ExecEnds(o)
    \/ \E o \in Outcomes, out \in ConfigOutputs, n \in 0 .. MaxExt : ExtRcEnds(o, out, n)
    \/ \E o \in Outcomes, found \in BOOLEAN : FindEnds(o, found)
    \/ \E o \in Outcomes : InstallEnds(o)

Spec == Init /\ [][Next]_vars

(***************************************************************************)
(* The port proxy on its own: a run of "local" with a forward port that    *)
(* follows a creation, from the moment runWebUi has opened the listener    *)
(* and started serve-web.                                                  *)
(***************************************************************************)
ProxyInit ==
    /\ runs = 2 /\ pc = "serve_wait" /\ action = "local" /\ forwardPort = ForwardPortArg
    /\ extLeft = 0
    /\ appPort = randomAppPort(0)
    /\ child = [cmd |-> "serveWeb", stdin |-> "inherit", wfail |-> FALSE]
    /\ started = <<"readPersistent", "serveWeb">> /\ outcomes = <<"exit0">>
    /\ result = "none" /\ errorKind = "none"
    /\ container = TRUE /\ dir = TRUE /\ file = JsonStringify([appPort |-> appPort])
    /\ overrideConfig = 0 /\ upExit = "none" /\ upReturn = "none"
    /\ created = appPort /\ written = appPort /\ servicePort = appPort
    /\ listener = ListenerFor(forwardPort) /\ listenPort = forwardPort /\ targetPort = appPort
    /\ from = [i \in Pairs |-> "none"] /\ to = [i \in Pairs |-> "none"]
    /\ inBuf = [i \in Pairs |-> <<>>] /\ outBuf = [i \in Pairs |-> <<>>]
    /\ clientSent = [i \in Pairs |-> <<>>] /\ targetRecv = [i \in Pairs |-> <<>>]
    /\ targetSent = [i \in Pairs |-> <<>>] /\ clientRecv = [i \in Pairs |-> <<>>]
    /\ errored = {} /\ crashed = FALSE
    /\ rcRead = NoRead /\ configFile = NoFile /\ configJson = NoDoc
    /\ overrideDoc = NoDoc /\ upStdin = <<>> /\ rnd = NoRandom
    /\ events = CliSpawn("readPersistent") \o ForwardingLog(forwardPort) \o CliSpawn("serveWeb")
    /\ running = {2}
    /\ args = <<>> /\ words = NoWords

ProxyNext ==
    \/ \E i \in Pairs : Accept(i)
    \/ \E i \in Pairs : ClientSend(i)
    \/ \E c \in Pairs : TargetSend(c)
    \/ \E i \in Pairs : PipeIn(i)
    \/ \E i \in Pairs : PipeOut(i)
    \/ \E i \in Pairs : ClientEnd(i)
    \/ \E i \in Pairs : TargetEnd(i)
    \/ \E side \in {"from", "to"}, i \in Pairs : SocketError(side, i)
    \/ \E o \in Outcomes : ServeEnds(o)
    \/ Kill

ProxySpec == ProxyInit /\ [][ProxyNext]_vars

(***************************************************************************)
(* randomAppPort on its own: Math.random returns a value of a fine grid    *)
(* over [0, 1) and the allocator is applied to it.                         *)
(***************************************************************************)
PortInit ==
    /\ Fresh /\ args = <<>>
    /\ rnd \in {<<k, RandGrid>> : k \in 0 .. (RandGrid - 1)}

Allocate ==
    /\ appPort = 0
    /\ appPort' = randomAppPortAt(rnd)
    /\ UNCHANGED <<argVars, pc, child, started, outcomes, result, errorKind, envVars,
                   histVars, listenVars, pairVars, cfgVars, procVars, shVars>>

PortNext == Allocate

PortSpec == PortInit /\ [][PortNext]_vars

(***************************************************************************)
(* The step of setUpContainer that reads the configuration file, over      *)
(* every configuration file: an "up" run awaits Cli.readConfiguration.     *)
(***************************************************************************)
ConfigInit ==
    /\ runs = 1 /\ pc = "rc_wait" /\ action = "up" /\ forwardPort = Undefined
    /\ extLeft = 0
    /\ appPort = 0
    /\ child = [cmd |-> "readConfiguration", stdin |-> "ignore", wfail |-> FALSE]
    /\ started = <<"readConfiguration">> /\ outcomes = <<>>
    /\ result = "none" /\ errorKind = "none"
    /\ container = FALSE /\ dir = FALSE /\ file = Absent
    /\ overrideConfig = 0 /\ upExit = "none" /\ upReturn = "none"
    /\ created = 0 /\ written = 0 /\ servicePort = 0
    /\ listener = "none" /\ listenPort = 0 /\ targetPort = 0
    /\ from = [i \in Pairs |-> "none"] /\ to = [i \in Pairs |-> "none"]
    /\ inBuf = [i \in Pairs |-> <<>>] /\ outBuf = [i \in Pairs |-> <<>>]
    /\ clientSent = [i \in Pairs |-> <<>>] /\ targetRecv = [i \in Pairs |-> <<>>]
    /\ targetSent = [i \in Pairs |-> <<>>] /\ clientRecv = [i \in Pairs |-> <<>>]
    /\ errored = {} /\ crashed = FALSE
    /\ rcRead = NoRead /\ configFile = NoFile /\ configJson = NoDoc
    /\ overrideDoc = NoDoc /\ upStdin = <<>> /\ rnd = NoRandom
    /\ events = CliSpawn("readConfiguration") /\ running = {1}
    /\ args = <<>> /\ words = NoWords

ConfigNext ==
    \E o \in Outcomes, out \in ConfigOutputs, k \in RandomSource, ok \in BOOLEAN,
          f \in ConfigFiles : RcEnds(o, out, k, ok, f)

ConfigSpec == ConfigInit /\ [][ConfigNext]_vars

(***************************************************************************)
(* escapeShell and the shell that reads its result:                        *)
(*     args.map(a => `'${a.replaceAll("'", "'\\''")}'`).join(" ")          *)
(* An argument is a sequence of characters.                                *)
(***************************************************************************)
\* the characters of an argument: a letter, a space, a single quote, a
\* backslash and two characters that are special to the shell
ShellChars == {"a", " ", "'", "\\", "$", ";"}
ShellSpecial == {"$", ";"}

\* a.replaceAll("'", "'\\''")
RECURSIVE ReplaceQuotes(_)
ReplaceQuotes(a) ==
    IF a = <<>> THEN <<>>
    ELSE (IF Head(a) = "'" THEN <<"'", "\\", "'", "'">> ELSE <<Head(a)>>)
         \o ReplaceQuotes(Tail(a))

\* A variant that wraps the argument in quotes as it is.
QuoteWithoutReplace(a) == <<"'">> \o a \o <<"'">>

Quote(a) == <<"'">> \o ReplaceQuotes(a) \o <<"'">>

RECURSIVE escapeShell(_)
escapeShell(list) ==
    IF list = <<>> THEN <<>>
    ELSE Quote(Head(list))
         \o (IF Len(list) > 1 THEN <<" ">> ELSE <<>>) \o escapeShell(Tail(list))

\* How a POSIX shell splits a command line into words.  Between single
\* quotes every character stands for itself; outside them a backslash
\* makes the next character stand for itself, a space ends the word and a
\* special character is not part of a word.  `word` is empty while no word
\* has begun and holds the word otherwise.
ShFails == [done |-> TRUE, ok |-> FALSE, words |-> <<>>]

RECURSIVE ShSplitFrom(_, _, _, _)
ShSplitFrom(t, quoted, word, acc) ==
    LET w == IF word = <<>> THEN <<>> ELSE word[1]
    IN  IF t = <<>> THEN
            IF quoted THEN ShFails ELSE [done |-> TRUE, ok |-> TRUE, words |-> acc \o word]
        ELSE IF quoted THEN
            IF Head(t) = "'" THEN ShSplitFrom(Tail(t), FALSE, word, acc)
            ELSE ShSplitFrom(Tail(t), TRUE, <<Append(w, Head(t))>>, acc)
        ELSE IF Head(t) = "'" THEN ShSplitFrom(Tail(t), TRUE, <<w>>, acc)
        ELSE IF Head(t) = "\\" THEN
            IF Len(t) = 1 THEN [done |-> TRUE, ok |-> TRUE, words |-> Append(acc, Append(w, "\\"))]
            ELSE ShSplitFrom(Tail(Tail(t)), FALSE, <<Append(w, t[2])>>, acc)
        ELSE IF Head(t) = " " THEN ShSplitFrom(Tail(t), FALSE, <<>>, acc \o word)
        ELSE IF Head(t) \in ShellSpecial THEN ShFails
        ELSE ShSplitFrom(Tail(t), FALSE, <<Append(w, Head(t))>>, acc)

ShSplit(line) == ShSplitFrom(line, FALSE, <<>>, <<>>)

\* Every list of one or two arguments of at most MaxArgLen characters.
ArgStrings == UNION {[1 .. n -> ShellChars] : n \in 0 .. MaxArgLen}
ArgLists == {<<a>> : a \in ArgStrings} \cup {<<a, b>> : a \in ArgStrings, b \in ArgStrings}

ShellInit == Fresh /\ rnd = NoRandom /\ args \in ArgLists

\* Cli.spawnInShell: sh -c runs the command line that escapeShell built.
RunShell ==
    /\ ~words.done
    /\ words' = ShSplit(escapeShell(args))
    /\ UNCHANGED <<runVars, envVars, histVars, listenVars, pairVars, cfgVars, procVars, args>>

ShellNext == RunShell

ShellSpec == ShellInit /\ [][ShellNext]_vars

(***************************************************************************)
(* Properties.                                                             *)
(***************************************************************************)
Range(seq) == {seq[n] : n \in 1 .. Len(seq)}

IsPrefix(p, q) == Len(p) <= Len(q) /\ SubSeq(q, 1, Len(p)) = p

\* The appPort that persist.json holds, 0 when it holds none.
Persisted == IF JsonParses(file) THEN JsonParse(file).appPort ELSE 0

\* C1: appPort is assigned at most once for the container: once persist.json
\* holds a value, no step of any action replaces it by another value.
C1_AppPortAssignedOnce ==
    [][(Persisted # 0 /\ Persisted' # 0) => Persisted' = Persisted]_vars

\* C2: once a socket of a relay pair has emitted an error event, the other
\* socket of that pair is destroyed.
C2_ErrorDestroysOtherSide ==
    \A s \in errored :
        IF s[1] = "from" THEN to[s[2]] = "closed" ELSE from[s[2]] = "closed"

\* C3: Cli.up returns normally only if its child process exited with status
\* zero; a non-zero exit status or a failed spawn makes it throw.
C3_UpFailsOnNonZeroExit ==
    upReturn = "returned" => upExit = "exit0"

\* C4: a read of the persistent state that follows a completed write, with
\* no write in between, returns the value written.
C4_WriteThenReadRoundTrip ==
    (action = "local" /\ written # 0 /\ servicePort # 0) => appPort = written

\* C5: once the creation workflow has returned having allocated port p, the
\* override configuration handed to up carried p, persist.json holds p, and
\* a later "local" reads p, serves with --port p and forwards to p.
C5_CreatedPortIsServed ==
    (created # 0 /\ (action = "up" => result = "ok")) =>
        /\ (action = "up" => overrideConfig = created)
        /\ Persisted = created
        /\ (action = "local" /\ servicePort # 0) =>
                /\ appPort = created
                /\ servicePort = created
                /\ (listener = "listening" => targetPort = created)

\* C6: for every relay pair, the bytes delivered on its target connection
\* are a prefix of the bytes its client sent, and the bytes delivered to its
\* client are a prefix of the bytes the target sent on its connection; no
\* byte of another pair is among them.
C6_RelayFidelity ==
    \A i \in Pairs :
        /\ IsPrefix(targetRecv[i], clientSent[i])
        /\ IsPrefix(clientRecv[i], targetSent[i])

WitnessC6 ==
    /\ Live(from[1]) /\ Live(from[2])
    /\ targetRecv[1] # <<>> /\ clientRecv[2] # <<>>

\* The pairs a socket of which changes its state in a step.
ChangedPairs == {i \in Pairs : from'[i] # from[i] \/ to'[i] # to[i]}

\* C7: while the listener is open, no socket event ends the program, and a
\* step that leaves the process running leaves the listener listening and
\* changes the sockets of at most one pair.
C7_FailureIsolation ==
    [][listener = "listening" =>
            /\ ~crashed'
            /\ (pc' # "idle" => (listener' = "listening" /\ Cardinality(ChangedPairs) <= 1))]_vars

WitnessC7 ==
    /\ listener = "listening" /\ pc # "idle"
    /\ errored = {<<"from", 1>>, <<"to", 1>>}
    /\ from[2] = "open" /\ to[2] = "open"

\* C8: whenever the program waits for a child whose standard input is a
\* pipe (up, the persistent state write, the settings write), it has closed
\* that pipe, also when a write to it failed.
C8_StdinClosedBeforeWait ==
    pc \in {"up_wait", "write_wait", "settings_wait"} => child.stdin = "closed"

WitnessC8 ==
    /\ pc = "settings_wait" /\ child.cmd = "saveSettings"
    /\ child.wfail /\ child.stdin = "closed"

\* C9: in the creation workflow a step that has failed is the last step
\* started, and the workflow has ended with its error.
StepFailed(n) ==
    IF started[n] = "readConfiguration" THEN outcomes[n] = "spawnerr"
    ELSE outcomes[n] # "exit0"

C10_BadStateFailsBeforeServing ==
    (action = "local" /\ Persisted = 0) =>
        /\ listener = "none"
        /\ servicePort = 0
        /\ "serveWeb" \notin Range(started)
        /\ (outcomes # <<>> =>
                (pc = "idle" /\ result = "error" /\ errorKind \in {"SyntaxError", "spawn"}))

WitnessC10 ==
    /\ action = "local" /\ forwardPort # Undefined
    /\ file # Absent /\ Persisted = 0
    /\ result = "error" /\ errorKind = "SyntaxError"

\* C11: Cli.readConfiguration throws the configuration-unavailable error,
\* and does not call JSON.parse, whenever its child has ended (whatever its
\* exit status) and nothing was captured from its standard output; it calls
\* JSON.parse only on a non-empty capture.
C11_EmptyOutputIsNotParsed ==
    /\ (rcRead.outcome \in {"exit0", "exit1"} /\ rcRead.stdout = "empty") =>
          /\ ~rcRead.parsed
          /\ rcRead.threw = "ConfigurationUnavailable"
          /\ result = "error" /\ errorKind = "ConfigurationUnavailable"
    /\ rcRead.parsed => rcRead.stdout \in {"json", "garbage"}

\* read-configuration exits with a non-zero status and prints nothing.
WitnessC11 ==
    /\ rcRead.outcome = "exit1" /\ rcRead.stdout = "empty"
    /\ errorKind = "ConfigurationUnavailable"

\* C12: a step of any action other than "up" leaves the state file (its
\* existence and its content) and the existence of the container as they
\* were; only steps of "up" change them.
C12_OnlyUpWritesState ==
    [][(action' # "up") => (file' = file /\ container' = container)]_vars

\* A "local" run has read an existing state file and served from it.
WitnessC12 ==
    /\ action = "local" /\ result = "ok" /\ file # Absent
    /\ Len(outcomes) = 2 /\ outcomes[1] = "exit0"

\* C13: the port allocator returns an integer p with 49152 <= p <= 65535
\* for every value of the random source, returns 49152 for the least value
\* and returns 65535 for the greatest value of the grid.
C13_PortInRange ==
    (rnd # NoRandom /\ appPort # 0) =>
        /\ appPort \in FirstPort .. LastPort
        /\ (rnd[1] = 0) => appPort = FirstPort
        /\ (rnd[1] = rnd[2] - 1) => appPort = LastPort

\* The upper bound has been returned.
WitnessC13 == rnd # NoRandom /\ appPort = LastPort

\* C14: for every configuration text, a JSON document with end-of-line
\* comments added, what setUpContainer parses after stripping the comments
\* is the document the text denotes.
C14_StripThenParse ==
    (configFile # NoFile) => configJson = configFile.doc

SpawnEvents == {n \in 1 .. Len(events) : events[n].kind = "spawn"}
ToolTraceLines ==
    {n \in 1 .. Len(events) : events[n].kind = "log" /\ Head(events[n].line) = "devcontainer"}

\* C15: every process of the external tool is spawned right after a trace
\* line that holds its argument vector (subcommand, --workspace-folder, the
\* project path, then the further arguments); there is one such line for
\* each invocation, and every child the run has started was spawned so.
C15_TraceBeforeSpawn ==
    /\ \A n \in SpawnEvents :
          /\ n > 1
          /\ events[n - 1] = log(<<"devcontainer">> \o events[n].line)
          /\ events[n].line[1] \in {"up", "exec", "read-configuration"}
          /\ SubSeq(events[n].line, 2, 3) = <<"--workspace-folder", "workspaceFolder">>
    /\ Cardinality(ToolTraceLines) = Cardinality(SpawnEvents)
    /\ Cardinality(SpawnEvents) = Len(started)

\* readConfiguration, up and an exec have been invoked in one run.
WitnessC15 ==
    /\ Len(started) >= 3 /\ started[2] = "up" /\ started[3] = "mkdir"
    /\ Cardinality(SpawnEvents) >= 3

\* C16: at any time at most one child process started by the run has
\* reported neither close nor a spawn error, and it is the one started
\* last, the one the run awaits.
C16_OneChildAtATime ==
    /\ Cardinality(running) <= 1
    /\ running \subseteq {Len(started)}

\* The fourth child of a run is running, the three before it have ended.
WitnessC16 == Len(started) = 4 /\ running = {4} /\ Len(outcomes) = 3

\* the bytes written to a stream before it is ended
RECURSIVE StdinBytes(_)
StdinBytes(ops) ==
    IF ops = <<>> \/ Head(ops).op = "end" THEN <<>>
    ELSE Head(ops).data \o StdinBytes(Tail(ops))

\* C17: while Cli.up awaits its child, and the writes did not fail, what
\* the shell's cat has passed on to the tool is the JSON text of the
\* override configuration followed by one newline, the stream was ended
\* after the writes and is closed.
C17_UpStdinIsJsonNewlineEnd ==
    (pc = "up_wait" /\ ~child.wfail) =>
        /\ Cat(StdinBytes(upStdin)) = StringifyDoc(overrideDoc) \o <<"\n">>
        /\ upStdin[Len(upStdin)].op = "end"
        /\ \A n \in 1 .. (Len(upStdin) - 1) : upStdin[n].op = "write"
        /\ child.stdin = "closed"

\* Cli.up awaits its child after writing a configuration of two members.
WitnessC17 == pc = "up_wait" /\ ~child.wfail /\ Len(overrideDoc) = 2

\* C18: the state is written only after the child that creates its
\* directory has ended; if that child succeeded the directory is there, and
\* after a successful write the state file holds the JSON text of the state.
C18_DirectoryBeforeWrite ==
    \A n \in 1 .. Len(started) :
        (started[n] = "writePersistent") =>
            /\ n > 1 /\ started[n - 1] = "mkdir"
            /\ Len(outcomes) >= n - 1
            /\ (outcomes[n - 1] = "exit0") => dir
            /\ (Len(outcomes) >= n /\ outcomes[n] = "exit0") =>
                  (dir /\ file = JsonStringify([appPort |-> appPort]))

\* In the first run, which found no directory, the write has succeeded.
WitnessC18 ==
    /\ runs = 1 /\ Len(outcomes) >= 4
    /\ started[4] = "writePersistent" /\ outcomes[4] = "exit0"

\* C19: the override configuration passed to Cli.up has the members of
\* the parsed configuration, with their values, for every key other than
\* appPort, and its appPort is the port allocated in this run.
C19_OverrideKeepsOtherFields ==
    (overrideDoc # NoDoc) =>
        /\ HasKey(overrideDoc, "appPort")
        /\ AppPortOf(overrideDoc) = appPort
        /\ appPort = randomAppPortAt(rnd)
        /\ \A k \in Keys \ {"appPort"} :
              /\ HasKey(overrideDoc, k) = HasKey(configJson, k)
              /\ HasKey(configJson, k) => ValueOf(overrideDoc, k) = ValueOf(configJson, k)

\* The project's configuration declares an appPort of its own.
WitnessC19 ==
    /\ overrideDoc # NoDoc /\ HasKey(configJson, "appPort")
    /\ AppPortOf(configJson) # appPort /\ HasKey(configJson, "name")

\* C20: the shell splits the command line that escapeShell builds into
\* exactly the arguments given to escapeShell.
C20_EscapeShellRoundTrip ==
    words.done => (words.ok /\ words.words = args)

\* Two arguments holding a single quote, a space and a special character.
WitnessC20 ==
    /\ words.done /\ Len(args) = 2
    /\ args[1] = <<"'", " ">> /\ args[2] = <<"$", "\\">>

====
